---- MODULE Spec2Model ----
(***************************************************************************)
(* Model of the Discord bridge of autogen_agent:                           *)
(*   - GeminiRetryWrapper (gemini_retry_wrapper.py): the key pool shared   *)
(*     by all client instances and the retry loop of create();             *)
(*   - the request serialisation of autogen_discord_bot.py: on_message,    *)
(*     the per-channel asyncio locks, _current_tasks, /interrupt and the   *)
(*     recovery loop of _handle_request.                                   *)
(* The asyncio event loop is a FIFO queue of ready callbacks; the blocking *)
(* user_proxy.initiate_chat of a turn runs in an executor thread and is    *)
(* modelled as one create() call of the assistant's client.                *)
(* Times are kept in tenths of a second.                                   *)
(***************************************************************************)
EXTENDS Integers, Sequences, FiniteSets, TLC

\* ------------------------------------------------------------------ bounds
NumChannels   == 2      \* conversations (Discord channel ids)
MaxMsgs       == 3      \* messages (normal or /interrupt) received in one run
MaxKeys       == 2      \* largest configured key pool
MaxInst       == 2      \* client instances constructed in one run
MaxCalls      == 2      \* threads that call create() on one client at once
MaxRetries    == 3      \* retriable failures the endpoint answers in one create()
MaxBotRetries == 1      \* the same, for the create() behind a turn of the bot
MaxHistory    == 3      \* messages in the history handed to create()
MaxLongRetries == 11    \* retriable failures in one create() of a long outage
MaxTextLen     == 3801   \* characters of the longest text handed to _send_long

\* ------------------------------------------------------- program constants
MAX_TOTAL_SECONDS     == 28800
BASE_BACKOFF          == 1
MAX_BACKOFF           == 300
KEY_ROTATE_EVERY      == 3
MAX_RECOVERY_ATTEMPTS == 3
INITIAL_MAX_TOTAL_TOKENS == 950000
SEND_CHUNK            == 1900

Min(a, b) == IF a < b THEN a ELSE b
Max(a, b) == IF a > b THEN a ELSE b

Channels == 1..NumChannels
Tasks    == 1..MaxMsgs            \* each normal message starts at most one task
Insts    == 1..MaxInst
Calls    == 1..MaxMsgs            \* a create() call runs in the thread of a task
KeyNames == <<"A", "B", "C", "D", "E">>
Pools    == {SubSeq(KeyNames, 1, n) : n \in 0..MaxKeys}
SeqRange(s) == {s[i] : i \in 1..Len(s)}

\* ------------------------------------------------ errors of the remote call
\* An exception is its Python type, the substrings of interest its text holds
\* and the seconds of a "retry_delay { seconds: N" clause (NoDelay: no clause).
NoDelay == -1
GENAI   == "Google GenAI exception occurred"
Exc(type, text, delay) == [type |-> type, text |-> text, delay |-> delay]
NoExc        == Exc("none", {}, NoDelay)
E429         == Exc("RuntimeError", {GENAI, "429"}, NoDelay)
E503         == Exc("RuntimeError", {GENAI, "503"}, NoDelay)
EQuotaDelay(d) == Exc("RuntimeError", {GENAI, "quota", "retry_delay"}, d)
EBadKey      == Exc("RuntimeError", {GENAI, "API key not valid"}, NoDelay)
ECtxTooLarge == Exc("RuntimeError", {GENAI, "input token count exceeds"}, NoDelay)
\* "... input token count (1500000) exceeds the maximum number of tokens ..."
ECtxTooLargeCount == Exc("RuntimeError", {GENAI, "input token count exceeds", "500"}, NoDelay)
EGenAIIndex  == Exc("RuntimeError", {GENAI, "list index out of range"}, NoDelay)
EFatal       == Exc("RuntimeError", {}, NoDelay)
EOther       == Exc("Exception", {}, NoDelay)
EIndexRange  == Exc("IndexError", {"list index out of range"}, NoDelay)
EIndexOther  == Exc("IndexError", {}, NoDelay)
EEmptyApiResponse == Exc("EmptyApiResponseError", {}, NoDelay)
EGaveUp      == Exc("RuntimeError", {"gave up"}, NoDelay)

ServerDelays == {0, 30000}
Errors == {E429, E503, EBadKey, ECtxTooLarge, ECtxTooLargeCount, EGenAIIndex, EFatal, EOther,
           EIndexRange, EIndexOther} \cup {EQuotaDelay(d) : d \in ServerDelays}
CallDurations == {5}             \* how long one remote call takes
JitterTenths  == {10, 13}        \* random.uniform(1.0, 1.3), in tenths

VARIABLES
    \* ---- gemini_retry_wrapper.py
    GEMINI_API_KEYS,   \* env GEMINI_API_KEYS, split and stripped
    USE_GEMINI,        \* env USE_GEMINI
    KEYS,              \* GeminiRetryWrapper._KEYS
    key_cycle,         \* GeminiRetryWrapper._key_cycle: index of the key next() yields, 0 = None
    api_key,           \* api_key of each client instance, "none" before __init__
    call,              \* the create() call of each thread
    MAX_TOTAL_TOKENS,  \* gemini_retry_wrapper.MAX_TOTAL_TOKENS
    tokenizer,         \* gemini_retry_wrapper.tokenizer: FALSE when it is None
    \* ---- autogen_discord_bot.py
    cfgKey,            \* assistant.llm_config["config_list"][0]["api_key"]
    locks,             \* _channel_locks: the asyncio.Lock of each channel
    current_tasks,     \* _current_tasks: channel -> task, 0 = no entry
    task,              \* the _handle_request tasks
    ready,             \* the event loop's FIFO queue of ready callbacks
    nTasks,            \* tasks created so far
    nMsgs,             \* messages received so far
    lastOut,           \* what the callback the loop ran last sent from on_message
    lateDispatch,      \* requests a turn's call dispatched after the turn was cancelled
    outbox             \* a call of _send_long: its text and the chunks sent so far

clientVars == <<GEMINI_API_KEYS, USE_GEMINI, KEYS, key_cycle, api_key, call,
                MAX_TOTAL_TOKENS, tokenizer>>
handlerVars == <<cfgKey, locks, current_tasks, task, ready, nTasks, nMsgs,
                 lastOut, lateDispatch>>
botVars    == <<handlerVars, outbox>>
vars       == <<clientVars, botVars>>

IdleCall == [pc |-> "idle", inst |-> 0, attempt |-> 0, backoff |-> 0,
             failures_on_key |-> 0, elapsed |-> 0, exc |-> NoExc, failure |-> NoExc,
             dispatches |-> 0, lastKey |-> "none", firstKey |-> "none",
             rotFrom |-> "none", rotTo |-> "none", computed |-> 0, delay |-> 0,
             original |-> <<>>, messages |-> <<>>]

\* -------------------------------------------------------- context pruning
\* A message of params["messages"]: its role, the tokens its string values
\* encode to, and its position in the list create() was called with.
Msg(role, tokens) == [role |-> role, tokens |-> tokens, id |-> 0]
Roles      == {"system", "user", "assistant"}
TokenSizes == {400000, 1000000}
Tagged(s)  == [k \in 1..Len(s) |-> [s[k] EXCEPT !.id = k]]
MessageLists ==
    {Tagged(s) : s \in UNION {[1..n -> {Msg(r, n2) : r \in Roles, n2 \in TokenSizes}] :
                                n \in 0..MaxHistory}}

\* _estimate_tokens: 4 per message plus its encoded values, plus 2; 0 when
\* there is no tokenizer.
RECURSIVE SumTokens(_)
SumTokens(msgs) ==
    IF msgs = <<>> THEN 0 ELSE 4 + Head(msgs).tokens + SumTokens(Tail(msgs))
_estimate_tokens(msgs) == IF tokenizer THEN SumTokens(msgs) + 2 ELSE 0

\* messages.pop(k), k counted from 0.
Pop(msgs, k) == SubSeq(msgs, 1, k) \o SubSeq(msgs, k + 2, Len(msgs))

\* prune_start_index: 1 when the first message has role system, else 0.
PruneStartIndex(msgs) == IF msgs[1].role = "system" THEN 1 ELSE 0

\* The while loop of the pruning block.
RECURSIVE PruneLoop(_, _, _)
PruneLoop(msgs, start, budget) ==
    IF _estimate_tokens(msgs) > budget /\ Len(msgs) > start + 1
    THEN PruneLoop(Pop(msgs, start), start, budget)
    ELSE msgs

\* The pruning block of create(): skipped without tokenizer or messages.
Prune(msgs, budget) ==
    IF tokenizer /\ msgs # <<>>
    THEN PruneLoop(msgs, PruneStartIndex(msgs), budget)
    ELSE msgs

\* ----------------------------------------------------------- the key pool
\* next(GeminiRetryWrapper._key_cycle): the key it yields and the cursor after it.
CycleKey(pool, cur)  == pool[cur]
\* A variant that is not the code's: a cursor that does not wrap around.
CycleNextNoWrap(pool, cur) == cur + 1
CycleNext(pool, cur) == (cur % Len(pool)) + 1

\* GeminiRetryWrapper.__init__ for instance i, passed api_key kwKey.
Construct(i, kwKey) ==
    /\ api_key[i] = "none"
    /\ LET fromEnv == IF KEYS = <<>> THEN GEMINI_API_KEYS ELSE KEYS
           pool    == IF fromEnv = <<>> /\ kwKey # "none" THEN <<kwKey>> ELSE fromEnv
           cur     == IF key_cycle = 0 THEN 1 ELSE key_cycle
       IN  /\ pool # <<>>            \* else RuntimeError: no API keys provided
           /\ KEYS' = pool
           /\ api_key' = [api_key EXCEPT ![i] = CycleKey(pool, cur)]
           /\ key_cycle' = CycleNext(pool, cur)
    /\ UNCHANGED <<GEMINI_API_KEYS, USE_GEMINI, call, MAX_TOTAL_TOKENS, tokenizer>>

\* ---------------------------------------------- GeminiRetryWrapper.create
\* Variants that are not the code's: quota exhaustion is not retried; every
\* failure is retried.
IsHttpRetriableNoQuota(text) ==
    \/ "429" \in text
    \/ \E code \in {"500", "502", "503", "504"} : code \in text
IsHttpRetriableAll(text) == TRUE

IsHttpRetriable(text) ==
    \/ "429" \in text
    \/ "quota" \in text
    \/ \E code \in {"500", "502", "503", "504"} : code \in text

\* create() is entered by a thread with params["messages"] = msgs: locals
\* initialised, the history pruned, then the retry loop starts.
CreateEnterRec(i, msgs) ==
    [IdleCall EXCEPT !.pc = "loop", !.inst = i, !.backoff = BASE_BACKOFF,
                     !.firstKey = api_key[i],
                     !.original = msgs,
                     !.messages = Prune(msgs, MAX_TOTAL_TOKENS)]

\* A variant that is not the code's: no wall-clock check.
LoopTopRecNoCheck(r, key) ==
    [r EXCEPT !.pc = "inflight", !.dispatches = @ + 1, !.lastKey = key]

\* A variant that is not the code's: past the budget the loop neither raises
\* nor dispatches.
LoopTopRecSpin(r, key) ==
    IF r.elapsed > MAX_TOTAL_SECONDS * 10 THEN r
    ELSE [r EXCEPT !.pc = "inflight", !.dispatches = @ + 1, !.lastKey = key]

\* Top of the while loop: the wall-clock check, then the request is
\* dispatched with the instance's key as it is at that moment.
LoopTopRec(r, key) ==
    IF r.elapsed > MAX_TOTAL_SECONDS * 10
    THEN [r EXCEPT !.pc = "raised", !.exc = EGaveUp]
    ELSE [r EXCEPT !.pc = "inflight", !.dispatches = @ + 1, !.lastKey = key]

\* The delay before the next attempt, in tenths of a second.
RetryDelay(e, backoff, jitter) ==
    IF e.delay # NoDelay THEN e.delay * 10
    ELSE Min(backoff, MAX_BACKOFF) * jitter

\* A variant that is not the code's: a backoff that doubles without a cap.
NextBackoffNoCap(e, backoff) ==
    IF e.delay # NoDelay THEN backoff ELSE backoff * 2

NextBackoff(e, backoff) ==
    IF e.delay # NoDelay THEN backoff ELSE Min(backoff * 2, MAX_BACKOFF)

Elapse(t, d) == Min(t + d, MAX_TOTAL_SECONDS * 10 + 1)

\* The remote call comes back after dur: a response (e = NoExc) or exception e
\* (kept in failure; exc is what create() itself raises). Before a retry
\* delay is the time slept and computed counts the retries whose delay came
\* from the backoff.
RespondRec(r0, e, dur, jitter) ==
    LET r == [r0 EXCEPT !.elapsed = Elapse(@, dur), !.failure = e] IN
    IF e = NoExc THEN [r EXCEPT !.pc = "returned"]
    ELSE IF e.type = "IndexError"
    THEN [r EXCEPT !.pc = "raised",
                   !.exc = IF "list index out of range" \in e.text
                           THEN EEmptyApiResponse ELSE e]
    ELSE IF ~IsHttpRetriable(e.text)
    THEN [r EXCEPT !.pc = "raised", !.exc = e]
    ELSE [r EXCEPT !.pc = "sleeping",
                   !.attempt = @ + 1,
                   !.failures_on_key = @ + 1,
                   !.backoff = NextBackoff(e, @),
                   !.computed = IF e.delay = NoDelay THEN @ + 1 ELSE @,
                   !.delay = RetryDelay(e, r0.backoff, jitter),
                   !.elapsed = Elapse(@, RetryDelay(e, r0.backoff, jitter))]

\* A variant that is not the code's: the key is rotated after two failures.
ShouldRotateEarly(failures, pool) ==
    failures >= KEY_ROTATE_EVERY - 1 /\ Len(pool) > 1

\* Whether the code rotates the key after the sleep.
ShouldRotate(failures, pool) ==
    failures >= KEY_ROTATE_EVERY /\ Len(pool) > 1

CreateEnter(c, i, msgs) ==
    /\ call[c].pc = "idle"
    /\ api_key[i] # "none"
    /\ call' = [call EXCEPT ![c] = CreateEnterRec(i, msgs)]
    /\ UNCHANGED <<GEMINI_API_KEYS, USE_GEMINI, KEYS, key_cycle, api_key, MAX_TOTAL_TOKENS,
                   tokenizer>>

LoopTop(c) ==
    /\ call[c].pc = "loop"
    /\ call' = [call EXCEPT ![c] = LoopTopRec(call[c], api_key[call[c].inst])]
    /\ UNCHANGED <<GEMINI_API_KEYS, USE_GEMINI, KEYS, key_cycle, api_key, MAX_TOTAL_TOKENS,
                   tokenizer>>

\* The endpoint answers at most MaxRetries retriable failures in one call.
Answers(r, e, cap) ==
    (e # NoExc /\ e.type # "IndexError" /\ IsHttpRetriable(e.text)) => r.attempt < cap

RespondUpTo(c, e, dur, jitter, cap) ==
    /\ call[c].pc = "inflight"
    /\ Answers(call[c], e, cap)
    /\ call' = [call EXCEPT ![c] = RespondRec(call[c], e, dur, jitter)]
    /\ UNCHANGED <<GEMINI_API_KEYS, USE_GEMINI, KEYS, key_cycle, api_key, MAX_TOTAL_TOKENS,
                   tokenizer>>

Respond(c, e, dur, jitter) == RespondUpTo(c, e, dur, jitter, MaxRetries)

\* The endpoint answers, with no limit on how often it fails.
RespondAlways(c, e, dur, jitter) ==
    /\ call[c].pc = "inflight"
    /\ call' = [call EXCEPT ![c] = RespondRec(call[c], e, dur, jitter)]
    /\ UNCHANGED <<GEMINI_API_KEYS, USE_GEMINI, KEYS, key_cycle, api_key, MAX_TOTAL_TOKENS,
                   tokenizer>>

\* time.sleep(delay) is over: rotate the key if this one failed often enough.
AfterSleep(c) ==
    /\ call[c].pc = "sleeping"
    /\ IF ShouldRotate(call[c].failures_on_key, KEYS)
       THEN /\ api_key' = [api_key EXCEPT ![call[c].inst] = CycleKey(KEYS, key_cycle)]
            /\ key_cycle' = CycleNext(KEYS, key_cycle)
            /\ call' = [call EXCEPT ![c].pc = "loop",
                                    ![c].failures_on_key = 0,
                                    ![c].rotFrom = call[c].lastKey,
                                    ![c].rotTo = CycleKey(KEYS, key_cycle)]
       ELSE /\ call' = [call EXCEPT ![c].pc = "loop"]
            /\ UNCHANGED <<api_key, key_cycle>>
    /\ UNCHANGED <<GEMINI_API_KEYS, USE_GEMINI, KEYS, MAX_TOTAL_TOKENS, tokenizer>>

\* The rotation statement self._switch_key(next(_key_cycle)) is two steps of
\* the thread, with no lock around them: next() draws the key and moves the
\* shared cursor, then _switch_key stores the key in the instance. AfterSleep
\* takes both at once; PickKey and SwitchKey are the steps apart, for threads
\* that rotate on one instance at the same time.
PickKey(c) ==
    /\ call[c].pc = "sleeping"
    /\ IF ShouldRotate(call[c].failures_on_key, KEYS)
       THEN /\ key_cycle' = CycleNext(KEYS, key_cycle)
            /\ call' = [call EXCEPT ![c].pc = "switching",
                                    ![c].rotFrom = call[c].lastKey,
                                    ![c].rotTo = CycleKey(KEYS, key_cycle)]
       ELSE /\ call' = [call EXCEPT ![c].pc = "loop"]
            /\ UNCHANGED key_cycle
    /\ UNCHANGED <<GEMINI_API_KEYS, USE_GEMINI, KEYS, api_key, MAX_TOTAL_TOKENS, tokenizer>>

SwitchKey(c) ==
    /\ call[c].pc = "switching"
    /\ api_key' = [api_key EXCEPT ![call[c].inst] = call[c].rotTo]
    /\ call' = [call EXCEPT ![c].pc = "loop", ![c].failures_on_key = 0]
    /\ UNCHANGED <<GEMINI_API_KEYS, USE_GEMINI, KEYS, key_cycle, MAX_TOTAL_TOKENS, tokenizer>>

\* The caller has taken the result of a finished call; the thread is free.
CallReset(c) ==
    /\ call[c].pc \in {"returned", "raised"}
    /\ call' = [call EXCEPT ![c] = IdleCall]
    /\ UNCHANGED <<GEMINI_API_KEYS, USE_GEMINI, KEYS, key_cycle, api_key, MAX_TOTAL_TOKENS,
                   tokenizer>>


\* ======================================================= autogen_discord_bot
\* The import of gemini_retry_wrapper as _grw is commented out (lines 80-85):
\* the name _grw is unbound in the module.
GrwImported == FALSE

NoTask == [ch |-> 0, pc |-> "none", attempt |-> 0, must_cancel |-> FALSE,
           fut |-> "none", content |-> "none", sent |-> {}, cancelReq |-> FALSE]

Out(ch, m) == [ch |-> ch, msg |-> m]
NoOut      == Out(0, "none")

NewLock == [made |-> FALSE, locked |-> FALSE, waiters |-> <<>>]

StepItem(t)   == [kind |-> "step", t |-> t, ch |-> 0]
DoneItem(t)   == [kind |-> "done_cb", t |-> t, ch |-> task[t].ch]
MsgItem(k, ch) == [kind |-> k, t |-> 0, ch |-> ch]

\* Variants of locked() that are not the code's: a gate that never reports a
\* held lock, and one lock shared by all channels.
LockLockedNever(ch) == FALSE
LockLockedAny(ch)   == \E c \in Channels : locks[c].locked

\* asyncio.Lock.locked()
LockLocked(ch) == locks[ch].locked

\* asyncio.Lock.acquire() succeeds at once: not locked and every waiter cancelled.
CanAcquire(ch) ==
    /\ ~locks[ch].locked
    /\ \A i \in 1..Len(locks[ch].waiters) : task[locks[ch].waiters[i]].fut = "cancelled"

RemoveFrom(s, x) == SelectSeq(s, LAMBDA y : y # x)

\* asyncio.Lock._wake_up_first() over waiters ws: the waiter whose future is set, 0 if none.
WakeUpFirst(ws) ==
    IF ws # <<>> /\ task[Head(ws)].fut = "pending" THEN Head(ws) ELSE 0

\* Tasks that hold a channel's lock: inside the "async with lock" block.
InBlock(t) == task[t].pc \in {"typing", "executor", "send_result", "send_cancel",
                              "send_warn", "send_final"}

\* A thread is executing the turn's initiate_chat.
Executing(t) == call[t].pc \in {"loop", "inflight", "sleeping"}

\* --------------------------------------------------------------- the gateway
\* A message event arrives: discord.py schedules on_message for it.
Receive(k, ch) ==
    /\ nMsgs < MaxMsgs
    /\ nMsgs' = nMsgs + 1
    /\ ready' = Append(ready, MsgItem(k, ch))
    /\ lastOut' = NoOut
    /\ UNCHANGED <<clientVars, cfgKey, locks, current_tasks, task, nTasks, lateDispatch, outbox>>

\* Task.cancel() on a task that is not done.
CancelRec(t) ==
    [task[t] EXCEPT !.must_cancel = TRUE, !.cancelReq = TRUE,
                    !.fut = IF @ = "pending" THEN "cancelled" ELSE @]

\* on_message, "/interrupt".
OnInterrupt ==
    /\ ready # <<>> /\ Head(ready).kind = "interrupt"
    /\ LET ch == Head(ready).ch
           t  == current_tasks[ch]
       IN IF t # 0 /\ task[t].pc # "done"
          THEN /\ task' = [task EXCEPT ![t] = CancelRec(t)]
               /\ ready' = IF task[t].fut = "pending"
                           THEN Append(Tail(ready), StepItem(t)) ELSE Tail(ready)
               /\ lastOut' = Out(ch, "cancelled")
          ELSE /\ lastOut' = Out(ch, "no_task")
               /\ ready' = Tail(ready)
               /\ UNCHANGED task
    /\ UNCHANGED <<clientVars, cfgKey, locks, current_tasks, nTasks, nMsgs,
                   lateDispatch, outbox>>

\* on_message, a normal message: busy reply or a new _handle_request task.
OnNormal ==
    /\ ready # <<>> /\ Head(ready).kind = "normal"
    /\ LET ch == Head(ready).ch
           t  == nTasks + 1
       IN IF LockLocked(ch)
          THEN /\ lastOut' = Out(ch, "busy")
               /\ ready' = Tail(ready)
               /\ locks' = [locks EXCEPT ![ch].made = TRUE]
               /\ UNCHANGED <<task, current_tasks, nTasks>>
          ELSE /\ task' = [task EXCEPT ![t] = [NoTask EXCEPT !.ch = ch, !.pc = "start",
                                                            !.content = "original"]]
               /\ current_tasks' = [current_tasks EXCEPT ![ch] = t]
               /\ nTasks' = t
               /\ ready' = Append(Tail(ready), StepItem(t))
               /\ locks' = [locks EXCEPT ![ch].made = TRUE]
               /\ lastOut' = Out(ch, "task")
    /\ UNCHANGED <<clientVars, cfgKey, nMsgs, lateDispatch, outbox>>

\* task.add_done_callback(lambda t: _current_tasks.pop(msg.channel.id, None))
DoneCallback ==
    /\ ready # <<>> /\ Head(ready).kind = "done_cb"
    /\ current_tasks' = [current_tasks EXCEPT ![Head(ready).ch] = 0]
    /\ ready' = Tail(ready)
    /\ lastOut' = NoOut
    /\ UNCHANGED <<clientVars, cfgKey, locks, task, nTasks, nMsgs,
                   lateDispatch, outbox>>

\* An awaited ch.typing() or ch.send() completes: the task is ready again.
IODone(t) ==
    /\ task[t].pc \in {"typing", "send_result", "send_cancel", "send_warn", "send_final"}
    /\ task[t].fut = "pending"
    /\ task' = [task EXCEPT ![t].fut = "set"]
    /\ ready' = Append(ready, StepItem(t))
    /\ lastOut' = NoOut
    /\ UNCHANGED <<clientVars, cfgKey, locks, current_tasks, nTasks, nMsgs,
                   lateDispatch, outbox>>

\* ------------------------------------------------------------ _handle_request
Await(tk, pc)  == [tk EXCEPT !.pc = pc, !.fut = "pending", !.must_cancel = FALSE]
Send(tk, m)    == [tk EXCEPT !.sent = @ \cup {m}]

\* The task ends. mode "release": it leaves the "async with lock" block;
\* "waiter": CancelledError inside lock.acquire(); "none": it never ran.
FinishTask(t, tk, mode) ==
    LET ch == task[t].ch
        ws == RemoveFrom(locks[ch].waiters, t)
        w  == IF mode = "release" \/ (mode = "waiter" /\ ~locks[ch].locked)
              THEN WakeUpFirst(ws) ELSE 0
        fin == [NoTask EXCEPT !.ch = ch, !.pc = "done", !.cancelReq = tk.cancelReq]
    IN  /\ locks' = [locks EXCEPT ![ch].locked = IF mode = "release" THEN FALSE ELSE @,
                                  ![ch].waiters = ws]
        /\ task' = IF w = 0 THEN [task EXCEPT ![t] = fin]
                   ELSE [task EXCEPT ![t] = fin, ![w].fut = "set"]
        /\ ready' = Tail(ready) \o (IF w = 0 THEN <<>> ELSE <<StepItem(w)>>)
                                \o <<DoneItem(t)>>

\* The lock is taken; the first attempt of the recovery loop starts.
EnterBlock(t) ==
    /\ locks' = [locks EXCEPT ![task[t].ch].locked = TRUE,
                              ![task[t].ch].made = TRUE,
                              ![task[t].ch].waiters = RemoveFrom(@, t)]
    /\ task' = [task EXCEPT ![t] = Await([task[t] EXCEPT !.attempt = 1], "typing")]
    /\ ready' = Tail(ready)

\* The task goes on inside the block with record tk.
Continue(t, tk) ==
    /\ task' = [task EXCEPT ![t] = tk]
    /\ ready' = Tail(ready)
    /\ UNCHANGED locks

\* "continue": the for loop goes to its next iteration; when range() is
\* exhausted control falls out of the loop to the message behind it.
NextAttempt(tk, content) ==
    IF tk.attempt < MAX_RECOVERY_ATTEMPTS
    THEN Await([tk EXCEPT !.attempt = @ + 1, !.content = content], "typing")
    ELSE Await(Send([tk EXCEPT !.content = content], "logic_flaw"), "send_final")

\* A variant that is not the code's: every RuntimeError is taken for the
\* "list index out of range" failure.
RecoveryBranchAlwaysA(text) == "A"

\* Which recovery branch of "except RuntimeError" the error text selects.
RecoveryBranch(text) ==
    IF GENAI \in text /\ "list index out of range" \in text THEN "A"
    ELSE IF GENAI \in text /\ "API key not valid" \in text THEN "B"
    ELSE IF "input token count exceeds" \in text THEN "C"
    ELSE "D"

Tighten(tokens) == Max(256000, (tokens * 8) \div 10)

\* Variants that are not the code's. The handler returns without telling the
\* channel; the recovery pattern is looked at before the attempt ceiling; every
\* failure is recovered from by a further attempt.
OnRaisedSilent(t, e) ==
    /\ Continue(t, Await(task[t], "send_final"))
    /\ UNCHANGED <<cfgKey, MAX_TOTAL_TOKENS>>

OnRaisedPatternFirst(t, e) ==
    /\ IF e.type = "RuntimeError" /\ RecoveryBranch(e.text) = "A"
       THEN Continue(t, NextAttempt(task[t], "recoveryA"))
       ELSE Continue(t, Await(Send(task[t], "all_failed"), "send_final"))
    /\ UNCHANGED <<cfgKey, MAX_TOTAL_TOKENS>>

OnRaisedAlwaysRecover(t, e) ==
    /\ Continue(t, NextAttempt(task[t], "original"))
    /\ UNCHANGED <<cfgKey, MAX_TOTAL_TOKENS>>

\* initiate_chat raised e on this attempt: the except clauses of the loop body.
OnRaised(t, e) ==
    LET tk == task[t]
        br == RecoveryBranch(e.text)
        others == {k \in SeqRange(GEMINI_API_KEYS) : k # cfgKey}
    IN
    IF e.type # "RuntimeError"
    THEN /\ Continue(t, Await(Send(tk, "unexpected"), "send_final"))
         /\ UNCHANGED <<cfgKey, MAX_TOTAL_TOKENS>>
    ELSE IF tk.attempt >= MAX_RECOVERY_ATTEMPTS
    THEN /\ Continue(t, Await(Send(tk, "all_failed"), "send_final"))
         /\ UNCHANGED <<cfgKey, MAX_TOTAL_TOKENS>>
    ELSE IF br = "A"
    THEN /\ Continue(t, NextAttempt(tk, "recoveryA"))
         /\ UNCHANGED <<cfgKey, MAX_TOTAL_TOKENS>>
    ELSE IF br = "B"
    THEN /\ IF USE_GEMINI /\ GEMINI_API_KEYS # <<>>
            THEN IF Len(GEMINI_API_KEYS) <= 1
                 THEN /\ Continue(t, Await(Send(tk, "warn_one_key"), "send_warn"))
                      /\ UNCHANGED cfgKey
                 ELSE IF others = {}
                 THEN /\ Continue(t, Await(Send(tk, "warn_key_switch"), "send_warn"))
                      /\ UNCHANGED cfgKey
                 ELSE \E new \in others :
                      /\ cfgKey' = new
                      /\ Continue(t, NextAttempt(tk, "recoveryB"))
            ELSE /\ Continue(t, Await(Send(tk, "warn_no_gemini"), "send_warn"))
                 /\ UNCHANGED cfgKey
         /\ UNCHANGED MAX_TOTAL_TOKENS
    ELSE IF br = "C"
    THEN /\ IF USE_GEMINI
            THEN IF GrwImported
                 THEN /\ MAX_TOTAL_TOKENS' = Tighten(MAX_TOTAL_TOKENS)
                      /\ Continue(t, NextAttempt(tk, "original"))
                 ELSE /\ Continue(t, Await(Send(tk, "warn_budget"), "send_warn"))
                      /\ UNCHANGED MAX_TOTAL_TOKENS
            ELSE /\ Continue(t, Await(Send(tk, "warn_too_large"), "send_warn"))
                 /\ UNCHANGED MAX_TOTAL_TOKENS
         /\ UNCHANGED cfgKey
    ELSE /\ Continue(t, Await(Send(tk, "unhandled"), "send_final"))
         /\ UNCHANGED <<cfgKey, MAX_TOTAL_TOKENS>>

\* A variant that is not the code's: the CancelledError is swallowed and the
\* loop goes on to another attempt.
OnCancelledRetry(t, tk) == Continue(t, Await(tk, "typing"))

\* A variant that is not the code's: the cancellation is reported to the
\* channel as a failure of the request.
OnCancelledAsFailure(t, tk) == Continue(t, Await(Send(tk, "unhandled"), "send_final"))

\* except asyncio.CancelledError: the notice is sent, then the function returns.
OnCancelled(t, tk) == Continue(t, Await(Send(tk, "cancelled"), "send_cancel"))

\* The history a turn of the bot hands to the client: the assistant's system
\* message and the request. The growth of the history is not followed here.
TurnMessages == Tagged(<<Msg("system", 400000), Msg("user", 400000)>>)

\* The thread of a new attempt enters the client's create(). With Gemini the
\* client is taken to be GeminiRetryWrapper, which puts itself in place of
\* autogen's Gemini class when it is imported.
StartCallRec(t) ==
    IF USE_GEMINI THEN CreateEnterRec(1, TurnMessages)
    ELSE [IdleCall EXCEPT !.pc = "loop", !.firstKey = cfgKey]

\* The event loop resumes task t at the await it is suspended in.
TaskStep ==
    /\ ready # <<>> /\ Head(ready).kind = "step"
    /\ LET t  == Head(ready).t
           tk == task[t]
       IN
       IF tk.must_cancel
       THEN \* CancelledError is thrown into the coroutine at its await
            /\ CASE tk.pc = "start" -> FinishTask(t, tk, "none")
                 [] tk.pc = "wait_lock" -> FinishTask(t, tk, "waiter")
                 [] tk.pc \in {"typing", "executor", "send_result"} -> OnCancelled(t, tk)
                 [] OTHER -> FinishTask(t, tk, "release")
            /\ UNCHANGED <<call, cfgKey, MAX_TOTAL_TOKENS>>
       ELSE CASE tk.pc = "start" ->
                   /\ IF CanAcquire(tk.ch)
                      THEN EnterBlock(t)
                      ELSE /\ locks' = [locks EXCEPT ![tk.ch].waiters = Append(@, t),
                                                     ![tk.ch].made = TRUE]
                           /\ task' = [task EXCEPT ![t] = Await(tk, "wait_lock")]
                           /\ ready' = Tail(ready)
                   /\ UNCHANGED <<call, cfgKey, MAX_TOTAL_TOKENS>>
              [] tk.pc = "wait_lock" ->
                   /\ EnterBlock(t)
                   /\ UNCHANGED <<call, cfgKey, MAX_TOTAL_TOKENS>>
              [] tk.pc = "typing" ->
                   /\ call' = [call EXCEPT ![t] = StartCallRec(t)]
                   /\ Continue(t, Await(tk, "executor"))
                   /\ UNCHANGED <<cfgKey, MAX_TOTAL_TOKENS>>
              [] tk.pc = "executor" ->
                   /\ call' = [call EXCEPT ![t] = IdleCall]
                   /\ IF call[t].pc = "returned"
                      THEN /\ Continue(t, Await(Send(tk, "result"), "send_result"))
                           /\ UNCHANGED <<cfgKey, MAX_TOTAL_TOKENS>>
                      ELSE OnRaised(t, call[t].exc)
              [] tk.pc = "send_warn" ->
                   /\ Continue(t, Await(Send(tk, "unhandled"), "send_final"))
                   /\ UNCHANGED <<call, cfgKey, MAX_TOTAL_TOKENS>>
              [] OTHER ->
                   /\ FinishTask(t, tk, "release")
                   /\ UNCHANGED <<call, cfgKey, MAX_TOTAL_TOKENS>>
    /\ UNCHANGED <<GEMINI_API_KEYS, USE_GEMINI, KEYS, key_cycle, api_key, tokenizer,
                   current_tasks, nTasks, nMsgs, lateDispatch, outbox>>
    /\ lastOut' = NoOut


\* ------------------------------------------------- the thread of a turn
\* Without Gemini the assistant's client is not the wrapper: one request,
\* its response or exception handed back as it is.
PlainRespondRec(r, e) ==
    IF e = NoExc THEN [r EXCEPT !.pc = "returned", !.dispatches = @ + 1, !.lastKey = cfgKey,
                                !.failure = e]
    ELSE [r EXCEPT !.pc = "raised", !.exc = e, !.dispatches = @ + 1, !.lastKey = cfgKey,
                   !.failure = e]

BotErrors == {E429, EBadKey, ECtxTooLarge, EGenAIIndex, EFatal, EOther}

\* One pass of the thread through the loop of create(): the time check, the
\* request and its answer e.
AttemptRec(t, e) ==
    IF ~USE_GEMINI THEN PlainRespondRec(call[t], e)
    ELSE LET r == LoopTopRec(call[t], api_key[call[t].inst])
         IN  IF r.pc = "raised" THEN r ELSE RespondRec(r, e, 0, 10)

\* The asyncio future of run_in_executor still waits for the thread's result.
Awaited(t) == task[t].pc = "executor" /\ task[t].fut = "pending"

\* When the call ends, the thread hands its result to the loop, which sets the
\* future the task awaits; the result of a thread nobody awaits is dropped.
ThreadAttempt(t, e) ==
    /\ call[t].pc = "loop"
    /\ Answers(call[t], e, MaxBotRetries)
    /\ LET r == AttemptRec(t, e)
           over == r.pc \in {"returned", "raised"}
       IN  /\ call' = [call EXCEPT ![t] = IF over /\ ~Awaited(t) THEN IdleCall ELSE r]
           /\ task' = IF over /\ Awaited(t) THEN [task EXCEPT ![t].fut = "set"] ELSE task
           /\ ready' = IF over /\ Awaited(t) THEN Append(ready, StepItem(t)) ELSE ready
           /\ lateDispatch' = [lateDispatch EXCEPT ![t] =
                                  IF task[t].cancelReq /\ r.dispatches > call[t].dispatches
                                  THEN @ + 1 ELSE @]
    /\ UNCHANGED <<GEMINI_API_KEYS, USE_GEMINI, KEYS, key_cycle, api_key, MAX_TOTAL_TOKENS,
                   tokenizer, cfgKey, locks, current_tasks, nTasks, nMsgs, outbox>>
    /\ lastOut' = NoOut

ThreadAfterSleep(t) ==
    /\ AfterSleep(t)
    /\ lastOut' = NoOut
    /\ UNCHANGED <<cfgKey, locks, current_tasks, task, ready, nTasks, nMsgs,
                   lateDispatch, outbox>>

\* ----------------------------------------------------------------- _send_long
\* A text is the sequence of its characters; the character at position k of
\* the texts looked at is k itself, so that a chunk shows where it came from.
Text(n) == [k \in 1..n |-> k]

\* txt[a:b] for 0 <= a <= b: Python clamps the slice to the text.
Slice(txt, a, b) == SubSeq(txt, Min(a, Len(txt)) + 1, Min(b, Len(txt)))

\* A variant that is not the code's: range(0, len(txt) - step + 1, step), which
\* leaves out the last, shorter chunk.
RangeFromZeroWhole(n, step) == [k \in 1..(n \div step) |-> (k - 1) * step]

\* range(0, n, step) as a sequence.
RangeFromZero(n, step) == [k \in 1..((n + step - 1) \div step) |-> (k - 1) * step]

\* [txt[i:i+1900] for i in range(0, len(txt), 1900)]
ChunksOf(txt) ==
    LET starts == RangeFromZero(Len(txt), SEND_CHUNK)
    IN  [k \in 1..Len(starts) |-> Slice(txt, starts[k], starts[k] + SEND_CHUNK)]

NoOutbox == [pc |-> "idle", txt |-> <<>>, i |-> 0, sent |-> <<>>]
Called(txt) == [NoOutbox EXCEPT !.pc = "called", !.txt = txt]

\* _send_long(ch, txt) is entered: the list of chunks is built.
SendLongEnter ==
    /\ outbox.pc = "called"
    /\ outbox' = [outbox EXCEPT !.pc = "loop", !.i = 1]
    /\ UNCHANGED <<clientVars, handlerVars>>

\* await ch.send(chunk) for the next chunk of the list.
SendChunk ==
    /\ outbox.pc = "loop"
    /\ outbox.i <= Len(ChunksOf(outbox.txt))
    /\ outbox' = [outbox EXCEPT !.sent = Append(@, ChunksOf(outbox.txt)[outbox.i]),
                                !.i = @ + 1]
    /\ UNCHANGED <<clientVars, handlerVars>>

\* The list is exhausted: _send_long returns.
SendLongReturn ==
    /\ outbox.pc = "loop"
    /\ outbox.i > Len(ChunksOf(outbox.txt))
    /\ outbox' = [outbox EXCEPT !.pc = "done"]
    /\ UNCHANGED <<clientVars, handlerVars>>

\* ------------------------------------------------------------ specifications
InitHandlerVars ==
    /\ locks = [ch \in Channels |-> NewLock]
    /\ current_tasks = [ch \in Channels |-> 0]
    /\ task = [t \in Tasks |-> NoTask]
    /\ ready = <<>>
    /\ nTasks = 0
    /\ nMsgs = 0
    /\ lastOut = NoOut
    /\ lateDispatch = [t \in Tasks |-> 0]

InitBotVars == InitHandlerVars /\ outbox = NoOutbox

\* The bot after import: the assistant and, with Gemini, its client (instance 1)
\* are constructed; llm_config carries random.choice(GEMINI_API_KEYS).
Init ==
    /\ USE_GEMINI \in BOOLEAN
    /\ GEMINI_API_KEYS \in Pools
    /\ USE_GEMINI <=> GEMINI_API_KEYS # <<>>
    /\ cfgKey \in (IF USE_GEMINI THEN SeqRange(GEMINI_API_KEYS) ELSE {"OPENAI"})
    /\ KEYS = GEMINI_API_KEYS
    /\ key_cycle = IF USE_GEMINI THEN CycleNext(GEMINI_API_KEYS, 1) ELSE 0
    /\ api_key = [i \in Insts |-> IF USE_GEMINI /\ i = 1 THEN GEMINI_API_KEYS[1]
                                  ELSE "none"]
    /\ call = [c \in Calls |-> IdleCall]
    /\ MAX_TOTAL_TOKENS = INITIAL_MAX_TOTAL_TOKENS
    /\ tokenizer = TRUE
    /\ InitBotVars

\* The event loop runs the callback at the head of its ready queue.
LoopRun == OnNormal \/ OnInterrupt \/ TaskStep \/ DoneCallback

\* Several conversations; the endpoint answers or fails fatally.
GateOutcomes == {NoExc, EFatal}
Next ==
    \/ \E k \in {"normal", "interrupt"}, ch \in Channels : Receive(k, ch)
    \/ LoopRun
    \/ \E t \in Tasks : IODone(t)
    \/ \E t \in Tasks, e \in GateOutcomes : ThreadAttempt(t, e)

\* Gemini in use with the largest pool: the configuration plays no part here.
InitGate == Init /\ USE_GEMINI /\ Len(GEMINI_API_KEYS) = MaxKeys /\ cfgKey = GEMINI_API_KEYS[1]
Spec == InitGate /\ [][Next]_vars

\* One conversation; the endpoint fails in every way the handler tells apart.
NextTurn ==
    \/ \E k \in {"normal", "interrupt"} : Receive(k, 1)
    \/ LoopRun
    \/ \E t \in Tasks : IODone(t)
    \/ \E t \in Tasks, e \in BotErrors \cup {NoExc} : ThreadAttempt(t, e)
    \/ \E t \in Tasks : ThreadAfterSleep(t)

SpecTurn == Init /\ [][NextTurn]_vars

\* The event loop keeps running its ready callbacks and every awaited
\* ch.typing() / ch.send() completes; nothing is assumed of the threads.
FairTurn == SpecTurn /\ WF_vars(LoopRun) /\ \A t \in Tasks : WF_vars(IODone(t))

\* The retry wrapper on its own: instances are constructed and create() is
\* called on them.
InitCreate ==
    /\ USE_GEMINI = TRUE
    /\ GEMINI_API_KEYS \in Pools
    /\ cfgKey = "none"
    /\ KEYS = <<>>
    /\ key_cycle = 0
    /\ api_key = [i \in Insts |-> "none"]
    /\ call = [c \in Calls |-> IdleCall]
    /\ MAX_TOTAL_TOKENS = INITIAL_MAX_TOTAL_TOKENS
    /\ tokenizer = TRUE
    /\ InitBotVars

CreateCalls == {1}      \* one thread calls create(), one call after another

NextCreate ==
    \/ \E i \in Insts, k \in {"none", KeyNames[1]} : Construct(i, k) /\ UNCHANGED botVars
    \/ \E c \in CreateCalls, i \in Insts : CreateEnter(c, i, TurnMessages) /\ UNCHANGED botVars
    \/ \E c \in CreateCalls : LoopTop(c) /\ UNCHANGED botVars
    \/ \E c \in CreateCalls, e \in Errors \cup {NoExc}, d \in CallDurations,
          j \in JitterTenths : Respond(c, e, d, j) /\ UNCHANGED botVars
    \/ \E c \in CreateCalls : AfterSleep(c) /\ UNCHANGED botVars
    \/ \E c \in CreateCalls : CallReset(c) /\ UNCHANGED botVars

SpecCreate == InitCreate /\ [][NextCreate]_vars

\* One client instance shared by several threads, as the assistant's client is
\* by the turns of the bot; the endpoint answers or is rate-limited.
InitRace ==
    /\ USE_GEMINI = TRUE
    /\ GEMINI_API_KEYS \in {p \in Pools : Len(p) > 1}
    /\ cfgKey = "none"
    /\ KEYS = GEMINI_API_KEYS
    /\ key_cycle = CycleNext(GEMINI_API_KEYS, 1)
    /\ api_key = [i \in Insts |-> IF i = 1 THEN GEMINI_API_KEYS[1] ELSE "none"]
    /\ call = [c \in Calls |-> IdleCall]
    /\ MAX_TOTAL_TOKENS = INITIAL_MAX_TOTAL_TOKENS
    /\ tokenizer = TRUE
    /\ InitBotVars

RaceCalls == 1..Min(MaxCalls, MaxMsgs)
RaceOutcomes == {NoExc, E429}

NextRace ==
    \/ \E c \in RaceCalls : CreateEnter(c, 1, TurnMessages) /\ UNCHANGED botVars
    \/ \E c \in RaceCalls : LoopTop(c) /\ UNCHANGED botVars
    \/ \E c \in RaceCalls, e \in RaceOutcomes : Respond(c, e, 5, 10) /\ UNCHANGED botVars
    \/ \E c \in RaceCalls : PickKey(c) /\ UNCHANGED botVars
    \/ \E c \in RaceCalls : SwitchKey(c) /\ UNCHANGED botVars
    \/ \E c \in RaceCalls : CallReset(c) /\ UNCHANGED botVars

SpecRace == InitRace /\ [][NextRace]_vars

\* One client in a long outage: the endpoint keeps answering 429 or a quota
\* error with a retry_delay, until the backoff has reached its cap.
InitDelay ==
    /\ USE_GEMINI = TRUE
    /\ GEMINI_API_KEYS \in Pools \ {<<>>}
    /\ cfgKey = "none"
    /\ KEYS = GEMINI_API_KEYS
    /\ key_cycle = CycleNext(GEMINI_API_KEYS, 1)
    /\ api_key = [i \in Insts |-> IF i = 1 THEN GEMINI_API_KEYS[1] ELSE "none"]
    /\ call = [c \in Calls |-> IdleCall]
    /\ MAX_TOTAL_TOKENS = INITIAL_MAX_TOTAL_TOKENS
    /\ tokenizer = TRUE
    /\ InitBotVars

DelayOutcomes == {NoExc, E429} \cup {EQuotaDelay(d) : d \in ServerDelays}

NextDelay ==
    \/ CreateEnter(1, 1, TurnMessages) /\ UNCHANGED botVars
    \/ LoopTop(1) /\ UNCHANGED botVars
    \/ \E e \in DelayOutcomes, j \in JitterTenths :
          RespondUpTo(1, e, 5, j, MaxLongRetries) /\ UNCHANGED botVars
    \/ AfterSleep(1) /\ UNCHANGED botVars
    \/ CallReset(1) /\ UNCHANGED botVars

SpecDelay == InitDelay /\ [][NextDelay]_vars

\* One client and an endpoint that may fail without end: every call takes ten
\* minutes and is answered, each time, by a response, a fatal error, a 429 or
\* a quota error whose retry_delay is 0. The jitter is left at its least.
EndlessOutcomes == {NoExc, EFatal, E429, EQuotaDelay(0)}
SlowCalls == {6000}

RespondSlowly == \E e \in EndlessOutcomes, d \in SlowCalls :
                    RespondAlways(1, e, d, 10)

NextEndless ==
    \/ CreateEnter(1, 1, TurnMessages) /\ UNCHANGED botVars
    \/ LoopTop(1) /\ UNCHANGED botVars
    \/ RespondSlowly /\ UNCHANGED botVars
    \/ AfterSleep(1) /\ UNCHANGED botVars
    \/ CallReset(1) /\ UNCHANGED botVars

SpecEndless == InitDelay /\ [][NextEndless]_vars

\* The thread of the call keeps running, its sleep ends, and every remote call
\* returns; which answer it returns is not constrained.
FairEndless ==
    /\ SpecEndless
    /\ WF_vars(LoopTop(1) /\ UNCHANGED botVars)
    /\ WF_vars(AfterSleep(1) /\ UNCHANGED botVars)
    /\ WF_vars(RespondSlowly /\ UNCHANGED botVars)

\* _send_long on its own, called with a text of every length up to MaxTextLen.
InitSend ==
    /\ USE_GEMINI = FALSE
    /\ GEMINI_API_KEYS = <<>>
    /\ cfgKey = "OPENAI"
    /\ KEYS = <<>>
    /\ key_cycle = 0
    /\ api_key = [i \in Insts |-> "none"]
    /\ call = [c \in Calls |-> IdleCall]
    /\ MAX_TOTAL_TOKENS = INITIAL_MAX_TOTAL_TOKENS
    /\ tokenizer = TRUE
    /\ InitHandlerVars
    /\ outbox \in {Called(Text(n)) : n \in 0..MaxTextLen}

NextSend == SendLongEnter \/ SendChunk \/ SendLongReturn

SpecSend == InitSend /\ [][NextSend]_vars

\* One client that is called with every history: the pruning of create().
InitPrune ==
    /\ USE_GEMINI = TRUE
    /\ GEMINI_API_KEYS \in Pools \ {<<>>}
    /\ cfgKey = "none"
    /\ KEYS = <<>>
    /\ key_cycle = 0
    /\ api_key = [i \in Insts |-> "none"]
    /\ call = [c \in Calls |-> IdleCall]
    /\ MAX_TOTAL_TOKENS = INITIAL_MAX_TOTAL_TOKENS
    /\ tokenizer \in BOOLEAN
    /\ InitBotVars

PruneOutcomes == {NoExc, E429, EFatal}

NextPrune ==
    \/ Construct(1, "none") /\ UNCHANGED botVars
    \/ \E msgs \in MessageLists : CreateEnter(1, 1, msgs) /\ UNCHANGED botVars
    \/ LoopTop(1) /\ UNCHANGED botVars
    \/ \E e \in PruneOutcomes : Respond(1, e, 5, 10) /\ UNCHANGED botVars
    \/ AfterSleep(1) /\ UNCHANGED botVars
    \/ CallReset(1) /\ UNCHANGED botVars

SpecPrune == InitPrune /\ [][NextPrune]_vars


\* ==================================================================== claims
\* on_message ran for a normal message of channel ch in this step.
OnNormalRan(ch) ==
    /\ ready # <<>>
    /\ Head(ready) = MsgItem("normal", ch)
    /\ lastOut' \in {Out(ch, "busy"), Out(ch, "task")}

\* The loop resumed task t at pc in this step.
Resumed(t, pc) ==
    /\ ready # <<>>
    /\ Head(ready) = StepItem(t)
    /\ task[t].pc = pc
    /\ task'[t] # task[t]

TurnsExecuting(ch) == {t \in Tasks : task[t].ch = ch /\ Executing(t)}
TurnsInBlock(ch)   == {t \in Tasks : task[t].ch = ch /\ InBlock(t)}

\* C1: in every channel at most one initiate_chat call started by
\* _handle_request is executing at any time.
C1_OneTurnPerChannel ==
    \A ch \in Channels : Cardinality(TurnsExecuting(ch)) <= 1

\* C2: no handler task ever waits for a channel lock: a normal message is
\* started at once or rejected as busy, never queued behind another turn.
C2_NoTaskWaitsForLock ==
    \A t \in Tasks : task[t].pc # "wait_lock"

\* C3: a normal message for a channel whose lock is held by a running turn
\* gets the busy reply, creates no task and leaves the running turn as it is:
\* not cancelled, its _current_tasks entry unchanged.
C3_BusyLeavesTurnAlone ==
    [][\A ch \in Channels :
          (OnNormalRan(ch) /\ TurnsInBlock(ch) # {})
              => /\ lastOut' = Out(ch, "busy")
                 /\ nTasks' = nTasks
                 /\ task' = task
                 /\ current_tasks' = current_tasks
                 /\ call' = call]_vars

C3_Witness ==
    \E ch \in Channels :
        /\ lastOut = Out(ch, "busy")
        /\ \E t \in TurnsInBlock(ch) : current_tasks[ch] = t /\ ~task[t].must_cancel

\* C4: once a running turn is cancelled its LLM call stops retrying: after at
\* most one more request nothing is dispatched to the endpoint for that turn.
C4_CancelStopsRetrying ==
    \A t \in Tasks : lateDispatch[t] <= 1

\* C5: a task that /interrupt cancels ends, and the channel lock is then no
\* longer held for it: the lock is locked only while a task of the channel
\* that has not ended is inside the "async with lock" block.
C5_CancelledTaskEnds ==
    /\ \A t \in Tasks : (task[t].cancelReq /\ task[t].pc # "done") ~> (task[t].pc = "done")
    /\ [](\A ch \in Channels : LockLocked(ch) => TurnsInBlock(ch) # {})

C5_Witness ==
    \E t \in Tasks :
        /\ task[t].cancelReq
        /\ task[t].pc = "done"
        /\ ~LockLocked(task[t].ch)
        /\ lastOut = Out(task[t].ch, "task")

\* C6: a turn running or blocked in its LLM call in one channel never makes a
\* message of another channel be answered busy or keeps its task from
\* starting: busy is answered only for a turn of the same channel, and a new
\* task whose channel has no other turn takes the lock at its first step.
C6_ChannelsIndependent ==
    [][\A ch \in Channels :
          /\ (OnNormalRan(ch) /\ TurnsInBlock(ch) = {}) => lastOut' = Out(ch, "task")
          /\ \A t \in Tasks :
                (/\ Resumed(t, "start")
                 /\ task[t].ch = ch
                 /\ ~task[t].must_cancel
                 /\ \A u \in Tasks \ {t} : task[u].ch = ch => task[u].pc \in {"none", "done"})
                    => task'[t].pc = "typing"]_vars

C6_Witness ==
    \E t, u \in Tasks :
        /\ task[t].ch # task[u].ch
        /\ Executing(t) /\ task[t].pc = "executor"
        /\ Executing(u) /\ task[u].pc = "executor"

\* C7: an "API key not valid" failure makes the client rotate to another key
\* of the pool and retry with it: when the pool holds an alternative, the
\* failure is not raised to the caller with the failing key still in place.
C7_InvalidKeyRotates ==
    \A c \in Calls :
        (/\ call[c].pc = "raised"
         /\ "API key not valid" \in call[c].exc.text
         /\ Len(KEYS) > 1)
            => api_key[call[c].inst] # call[c].lastKey

\* C8: with pool [A, B] and A active, invalid-credential failures on A do not
\* end the call: after three of them the client rotates to B and the fourth
\* attempt is dispatched with B.
C8_FourthAttemptWithB ==
    \A c \in Calls :
        (/\ KEYS = <<"A", "B">>
         /\ call[c].firstKey = "A"
         /\ "API key not valid" \in call[c].exc.text
         /\ call[c].pc = "raised")
            => (call[c].dispatches >= 4 /\ call[c].lastKey = "B")

\* C9: after a rotation the next attempt uses a key different from the one
\* that just failed whenever the pool holds an alternative, for every
\* instance drawing from the shared class-level cycle.
C9_RotationChangesKey ==
    \A c \in Calls :
        (call[c].rotTo # "none" /\ Len(KEYS) > 1) => call[c].rotTo # call[c].rotFrom

\* C10: when an attempt fails with a context-too-large error while Gemini is
\* in use and attempts remain, the handler tightens the token budget to 0.8
\* of its value and runs another attempt with the original content.
C10_TightenAndRetry ==
    [][\A t \in Tasks :
          (/\ Resumed(t, "executor")
           /\ ~task[t].must_cancel
           /\ call[t].pc = "raised"
           /\ call[t].exc = ECtxTooLarge
           /\ USE_GEMINI
           /\ task[t].attempt < MAX_RECOVERY_ATTEMPTS)
              => /\ MAX_TOTAL_TOKENS' = (MAX_TOTAL_TOKENS * 8) \div 10
                 /\ task'[t].attempt = task[t].attempt + 1
                 /\ task'[t].content = "original"
                 /\ task'[t].pc = "typing"]_vars

\* ------------------------------------------------------- retry classification
\* The retriable signatures: rate limit, quota exhaustion, 5xx.
HasRetriableSignature(text) ==
    text \cap {"429", "quota", "500", "502", "503", "504"} # {}

\* In this step the request of call c came back.
Answered(c) == call[c].pc = "inflight" /\ call'[c] # call[c]

\* In this step call c woke from its sleep and passed the time check.
WokeUp(c) == call[c].pc = "loop" /\ call[c].attempt > 0 /\ call'[c] # call[c]

\* C14: a failure whose text marks a rate limit, quota exhaustion or a 5xx
\* status is not raised: the call sleeps, and after the sleep it dispatches
\* again while the wall-clock budget lasts.
C14_RetriableIsRetried ==
    [][\A c \in Calls :
          /\ (Answered(c) /\ HasRetriableSignature(call'[c].failure.text))
                 => /\ call'[c].pc = "sleeping"
                    /\ call'[c].elapsed >= call[c].elapsed
                    /\ call'[c].attempt = call[c].attempt + 1
          /\ (call[c].pc = "sleeping" /\ call'[c] # call[c]) => call'[c].pc = "loop"
          /\ (WokeUp(c) /\ call[c].elapsed <= MAX_TOTAL_SECONDS * 10)
                 => /\ call'[c].pc = "inflight"
                    /\ call'[c].dispatches = call[c].dispatches + 1]_vars

C14_Witness ==
    \E c \in Calls :
        /\ call[c].pc = "inflight"
        /\ call[c].dispatches = 3
        /\ "503" \in call[c].failure.text

\* What create() raises for a failure that is not retried.
RaisedFor(e) ==
    IF e.type = "IndexError" /\ "list index out of range" \in e.text
    THEN EEmptyApiResponse ELSE e

\* The step raises at once: no sleep, no dispatch, no rotation.
RaisedAtOnce(c) ==
    /\ call'[c].pc = "raised"
    /\ \E d \in CallDurations : call'[c].elapsed = Elapse(call[c].elapsed, d)
    /\ call'[c].dispatches = call[c].dispatches
    /\ call'[c].attempt = call[c].attempt
    /\ api_key' = api_key
    /\ key_cycle' = key_cycle

Unmatched(c) ==
    /\ Answered(c)
    /\ call'[c].failure # NoExc
    /\ ~HasRetriableSignature(call'[c].failure.text)

Rotated(c) ==
    \/ key_cycle' # key_cycle
    \/ api_key' # api_key
    \/ call'[c].rotTo # call[c].rotTo

\* C16: create() rotates the key exactly when the failures of the call since
\* its last rotation number KEY_ROTATE_EVERY and the pool has more than one
\* key; the per-key counter is then reset to 0; with one key it never rotates.
C16_RotateEveryThird ==
    [][\A c \in Calls :
          (call[c].pc = "sleeping" /\ call'[c] # call[c]) =>
              /\ Rotated(c) <=> (/\ call[c].attempt % KEY_ROTATE_EVERY = 0
                                 /\ Len(KEYS) > 1)
              /\ Rotated(c) => call'[c].failures_on_key = 0
              /\ ~Rotated(c) => call'[c].failures_on_key = call[c].failures_on_key
              /\ Len(KEYS) = 1 => ~Rotated(c)]_vars

C16_Witness ==
    \E c \in Calls :
        /\ call[c].pc = "loop"
        /\ call[c].attempt = KEY_ROTATE_EVERY
        /\ call[c].failures_on_key = 0
        /\ call[c].rotTo # "none"
        /\ api_key[call[c].inst] # call[c].rotFrom

\* C17: the active key of every constructed instance is a member of the pool,
\* and the shared cursor points into the pool, after constructions and
\* rotations alike.
C17_KeyInPool ==
    /\ \A i \in Insts : api_key[i] # "none" => api_key[i] \in SeqRange(KEYS)
    /\ key_cycle # 0 => key_cycle \in 1..Len(KEYS)
    /\ KEYS # <<>> => (KEYS = GEMINI_API_KEYS \/ GEMINI_API_KEYS = <<>>)

C17_Witness ==
    \E c \in Calls :
        /\ call[c].rotTo # "none"
        /\ \A i \in Insts : api_key[i] # "none"
        /\ key_cycle = 1
        /\ Len(KEYS) = MaxKeys

\* The key the shared cursor drew last.
LastDrawn == KEYS[IF key_cycle = 1 THEN Len(KEYS) ELSE key_cycle - 1]
Switching == {c \in Calls : call[c].pc = "switching"}

\* C18: mutations of the shared key cursor are serialized: no two threads are
\* inside a rotation at the same time, and no rotation is lost, so that
\* between rotations the client holds the key the cursor drew last.
C18_RotationsSerialized ==
    /\ Cardinality(Switching) <= 1
    /\ Switching = {} => api_key[1] = LastDrawn

\* -------------------------------------------------------------------- backoff
RECURSIVE Pow2(_)
Pow2(n) == IF n = 0 THEN 1 ELSE 2 * Pow2(n - 1)

\* C20: the delay before a retry is the server's retry_delay when the error
\* carries one, else min(BASE_BACKOFF * 2^j, MAX_BACKOFF) times a jitter in
\* [1.0, 1.3], j the number of earlier retries that used the computed backoff;
\* the computed delay without jitter is at most MAX_BACKOFF, and a
\* server-specified delay does not advance the backoff. (Delays in tenths.)
C20_RetryDelay ==
    [][\A c \in Calls :
          (Answered(c) /\ call'[c].pc = "sleeping") =>
              LET e == call'[c].failure
                  j == call[c].computed
                  base == Min(BASE_BACKOFF * Pow2(j), MAX_BACKOFF)
              IN  IF e.delay # NoDelay
                  THEN /\ call'[c].delay = e.delay * 10
                       /\ call'[c].backoff = call[c].backoff
                       /\ call'[c].computed = j
                  ELSE /\ call'[c].delay >= base * 10
                       /\ call'[c].delay <= base * 13
                       /\ call'[c].delay <= MAX_BACKOFF * 13
                       /\ call'[c].computed = j + 1
                       /\ call'[c].backoff = Min(BASE_BACKOFF * Pow2(j + 1), MAX_BACKOFF)]_vars

C20_Witness ==
    \E c \in Calls :
        /\ call[c].pc = "sleeping"
        /\ call[c].attempt > call[c].computed
        /\ call[c].delay = MAX_BACKOFF * 13
        /\ call[c].backoff = MAX_BACKOFF

\* ---------------------------------------------------------------- time budget
\* C19: at the time check, once more than MAX_TOTAL_SECONDS have elapsed since
\* create() started no request is dispatched and RuntimeError is raised;
\* within the budget the check lets the request be dispatched.
C19_WallClockBudget ==
    [][\A c \in Calls :
          (call[c].pc = "loop" /\ call'[c] # call[c]) =>
              IF call[c].elapsed > MAX_TOTAL_SECONDS * 10
              THEN /\ call'[c].pc = "raised"
                   /\ call'[c].exc.type = "RuntimeError"
                   /\ "gave up" \in call'[c].exc.text
                   /\ call'[c].dispatches = call[c].dispatches
              ELSE /\ call'[c].pc = "inflight"
                   /\ call'[c].dispatches = call[c].dispatches + 1]_vars

C19_Witness ==
    \E c \in Calls :
        /\ call[c].pc = "raised"
        /\ call[c].exc = EGaveUp
        /\ call[c].elapsed > MAX_TOTAL_SECONDS * 10
        /\ call[c].dispatches = 1

\* ------------------------------------------------------------------ pruning
NonSystem(msgs) == {k \in 1..Len(msgs) : msgs[k].role # "system"}
Ids(msgs)       == {msgs[k].id : k \in 1..Len(msgs)}

\* C11: every request dispatched to the endpoint carries a history whose
\* estimated token count is at most MAX_TOTAL_TOKENS at the moment of dispatch.
C11_DispatchWithinCeiling ==
    \A c \in Calls :
        call[c].pc = "inflight" => _estimate_tokens(call[c].messages) <= MAX_TOTAL_TOKENS

C13_PruneKeepsSystem ==
    \A c \in Calls :
        call[c].pc # "idle" =>
            LET o == call[c].original
                m == call[c].messages
            IN  /\ \A k \in 1..Len(o) : o[k].role = "system" => o[k].id \in Ids(m)
                /\ \A k \in 1..Len(o) : \A j \in 1..Len(o) :
                       (/\ k < j /\ o[k].role # "system" /\ o[j].role # "system"
                        /\ o[k].id \in Ids(m)) => o[j].id \in Ids(m)
                /\ o # <<>> => (m # <<>> /\ m[Len(m)] = o[Len(o)])
                /\ \A k \in 1..Len(m) : \A j \in 1..Len(m) : k < j => m[k].id < m[j].id
                /\ \A k \in 1..Len(m) : m[k] = o[m[k].id]

\* ------------------------------------------------- the end of a request
\* What the handler sends when it gives a request up.
FailureMessages == {"unexpected", "all_failed", "unhandled", "logic_flaw"}

\* initiate_chat raised and the loop resumed task t, not cancelled, with it.
RaisedTo(t) ==
    /\ Resumed(t, "executor")
    /\ ~task[t].must_cancel
    /\ call[t].pc = "raised"

\* The error text matches none of the three recovery patterns.
NoPattern(text) ==
    /\ ~(GENAI \in text /\ "list index out of range" \in text)
    /\ ~(GENAI \in text /\ "API key not valid" \in text)
    /\ "input token count exceeds" \notin text

\* C21: every failed request ends with a failure message sent to the
\* channel and with the channel lock released: a failure that is not
\* followed by another attempt leads to the final send with a failure
\* message, the task then ends, and its end leaves the lock free.
C21_FailureReported ==
    /\ [][\A t \in Tasks :
             /\ (RaisedTo(t) /\ task'[t].pc # "typing")
                    => task'[t].pc \in {"send_warn", "send_final"}
             /\ (Resumed(t, "send_warn") /\ ~task[t].must_cancel)
                    => task'[t].pc = "send_final"
             /\ (task[t].pc \in {"send_warn", "send_final"} /\ task'[t].pc = "done")
                    => ~locks'[task[t].ch].locked]_vars
    /\ [](\A t \in Tasks :
             task[t].pc = "send_final" => task[t].sent \cap FailureMessages # {})
    /\ \A t \in Tasks :
          (task[t].pc \in {"send_warn", "send_final"}) ~> (task[t].pc = "done")

C21_Witness ==
    \E t \in Tasks :
        /\ task[t].pc = "send_final"
        /\ task[t].fut = "set"
        /\ ~task[t].cancelReq
        /\ {"warn_budget", "unhandled"} \subseteq task[t].sent
        /\ LockLocked(task[t].ch)

\* C22: a RuntimeError that matches none of the three recovery patterns, and
\* any exception that is not a RuntimeError, ends the request on that attempt:
\* the handler goes to its final message, and from there no further
\* initiate_chat call is started.
C22_FatalNotRetried ==
    [][\A t \in Tasks :
          /\ (/\ RaisedTo(t)
              /\ \/ call[t].exc.type # "RuntimeError"
                 \/ NoPattern(call[t].exc.text))
                => /\ task'[t].pc = "send_final"
                   /\ task'[t].attempt = task[t].attempt
                   /\ call'[t].pc = "idle"
          /\ task[t].pc = "send_final"
                => /\ task'[t].pc \in {"send_final", "done"}
                   /\ call'[t].pc = "idle"]_vars

C22_Witness ==
    \E t \in Tasks :
        /\ task[t].pc = "send_final"
        /\ task[t].attempt = 2
        /\ task[t].sent \cap {"unexpected", "unhandled"} # {}
        /\ task[t].sent \cap {"warn_one_key", "warn_key_switch", "warn_no_gemini",
                              "warn_budget", "warn_too_large"} = {}
        /\ call[t].pc = "idle"

\* C23: from the moment /interrupt cancels a running task, the only messages
\* the handler sends to the channel for that request are cancellation notices:
\* no failure message and no result.
C23_CancelledSendsOnlyNotice ==
    [][\A t \in Tasks :
          task[t].cancelReq => (task'[t].sent \ task[t].sent) \subseteq {"cancelled"}]_vars

C23_Witness ==
    \E t \in Tasks :
        /\ task[t].cancelReq
        /\ task[t].pc = "send_cancel"
        /\ "cancelled" \in task[t].sent
        /\ call[t].pc \in {"returned", "raised"}

\* C25: one request makes at most MAX_RECOVERY_ATTEMPTS initiate_chat calls,
\* and a RuntimeError on the last attempt ends the request with the "all
\* attempts failed" message whatever its text, a recovery pattern included.
C25_AttemptCeiling ==
    /\ [](\A t \in Tasks : task[t].attempt <= MAX_RECOVERY_ATTEMPTS)
    /\ [][\A t \in Tasks :
             /\ (Resumed(t, "typing") /\ task'[t].pc = "executor")
                    => task[t].attempt \in 1..MAX_RECOVERY_ATTEMPTS
             /\ (/\ RaisedTo(t)
                 /\ call[t].exc.type = "RuntimeError"
                 /\ task[t].attempt = MAX_RECOVERY_ATTEMPTS)
                    => /\ task'[t].pc = "send_final"
                       /\ "all_failed" \in task'[t].sent
                       /\ task'[t].sent \cap (FailureMessages \ {"all_failed"}) = {}]_vars

C25_Witness ==
    \E t \in Tasks :
        /\ task[t].pc = "send_final"
        /\ task[t].attempt = MAX_RECOVERY_ATTEMPTS
        /\ task[t].content = "recoveryB"
        /\ "all_failed" \in task[t].sent

\* C28: the code behind the retry loop of _handle_request is never reached:
\* its message is never sent, every iteration returns or continues to an
\* attempt that exists.
C28_PostLoopUnreachable ==
    \A t \in Tasks : "logic_flaw" \notin task[t].sent

C28_Witness ==
    \E t \in Tasks :
        /\ task[t].pc = "send_final"
        /\ task[t].attempt = MAX_RECOVERY_ATTEMPTS
        /\ task[t].content = "recoveryA"
        /\ task[t].sent = {"all_failed"}

\* ------------------------------------------------------------ _current_tasks
\* The done-callback of task t ran in this step.
DoneCallbackRan(t) ==
    /\ ready # <<>>
    /\ Head(ready).kind = "done_cb"
    /\ Head(ready).t = t
    /\ ready' = Tail(ready)

\* C26: while a _handle_request task of a channel has not finished,
\* _current_tasks maps the channel to that very task, and the done-callback
\* of a finished task never removes the entry of another task that still runs.
C26_CurrentTaskIsRunningTask ==
    /\ [](\A t \in Tasks :
             task[t].pc \notin {"none", "done"} => current_tasks[task[t].ch] = t)
    /\ [][\A t \in Tasks :
             (/\ DoneCallbackRan(t)
              /\ current_tasks[task[t].ch] # t)
                 => current_tasks' = current_tasks]_vars

\* ------------------------------------------------------ error classification
\* The failure is a context-too-large or an invalid-credential failure.
CtxOrCredential(e) ==
    \/ "input token count exceeds" \in e.text
    \/ "API key not valid" \in e.text

\* C27: error classification in create() is exclusive by kind: a
\* context-too-large or invalid-credential failure never enters the
\* backoff-retry branch, whatever digit runs (token counts) its text holds.
C27_ClassificationExclusive ==
    [][\A c \in Calls :
          (Answered(c) /\ CtxOrCredential(call'[c].failure))
              => call'[c].pc # "sleeping"]_vars

\* --------------------------------------------------------------- termination
\* C29: every create() call terminates, also when the endpoint never stops
\* failing retriably and when the server-specified delay is 0: the call
\* returns a response, raises a failure that is not retriable, or raises the
\* RuntimeError of the exhausted wall-clock budget.
C29_CreateTerminates ==
    /\ \A c \in Calls :
          (call[c].pc \in {"loop", "inflight", "sleeping"})
              ~> (call[c].pc \in {"returned", "raised"})
    /\ [](\A c \in Calls :
             call[c].pc = "raised" =>
                 \/ /\ call[c].exc = EGaveUp
                    /\ call[c].elapsed > MAX_TOTAL_SECONDS * 10
                 \/ /\ call[c].exc = call[c].failure
                    /\ ~HasRetriableSignature(call[c].failure.text))

C29_Witness ==
    \E c \in Calls :
        /\ call[c].pc = "raised"
        /\ call[c].exc = EGaveUp
        /\ call[c].failure = EQuotaDelay(0)
        /\ call[c].computed = 0
        /\ call[c].attempt > MaxLongRetries

\* ---------------------------------------------------------- the token budget
\* C30: starting from 950,000 the token budget only decreases and never drops
\* below 256,000; each tightening - the handling of a context-too-large
\* failure with Gemini in use and attempts left - sets it to
\* max(256000, floor(0.8 * current)), and nothing restores it.
C30_BudgetTightens ==
    /\ [](MAX_TOTAL_TOKENS \in 256000..INITIAL_MAX_TOTAL_TOKENS)
    /\ [][MAX_TOTAL_TOKENS' <= MAX_TOTAL_TOKENS]_vars
    /\ [][\A t \in Tasks :
             (/\ RaisedTo(t)
              /\ call[t].exc.type = "RuntimeError"
              /\ "input token count exceeds" \in call[t].exc.text
              /\ USE_GEMINI
              /\ task[t].attempt < MAX_RECOVERY_ATTEMPTS)
                 => MAX_TOTAL_TOKENS' = Max(256000, (MAX_TOTAL_TOKENS * 8) \div 10)]_vars

\* ------------------------------------------------------------------ chunking
RECURSIVE Concat(_)
Concat(ss) == IF ss = <<>> THEN <<>> ELSE Head(ss) \o Concat(Tail(ss))

\* C24: _send_long sends chunks of at most 1900 characters each, in order,
\* whose concatenation is the text: what has been sent so far is the start of
\* the text, all of it once the function has returned, and nothing is sent
\* for the empty text.
C24_ChunksMakeText ==
    LET sent == outbox.sent
        all  == Concat(sent)
    IN  /\ \A k \in 1..Len(sent) : Len(sent[k]) <= 1900
        /\ Len(all) <= Len(outbox.txt)
        /\ all = SubSeq(outbox.txt, 1, Len(all))
        /\ outbox.pc = "done" => all = outbox.txt
        /\ outbox.txt = <<>> => sent = <<>>

C24_Witness ==
    /\ outbox.pc = "done"
    /\ Len(outbox.txt) = 2 * 1900 + 1
    /\ Len(outbox.sent) = 3
    /\ outbox.sent[3] = <<2 * 1900 + 1>>

====
